---- MODULE Spec2Model ----
\* Sub-grid burning area (SGBA) of pyrolib: the weighted average SGBA_WA and the
\* explicit fire front reconstruction SGBA_EFFR of
\* src/pyrolib/blaze/subgrid_burning_area.py, and the older SGBA_EFFR of
\* src/pyrolib/blaze.py, as a state machine that runs one call loop step by
\* loop step.
\*
\* Numbers.  A float64 is modelled by the exact rational it stands for, a pair
\* <<n, d>> in lowest terms with d > 0; d = 0 holds the three non-finite values
\* numpy produces on a division by zero: <<1,0>> = +inf, <<-1,0>> = -inf and
\* <<0,0>> = nan.  Rounding is not modelled.  A cell of an np.empty array that
\* was never written holds Junk (any value the allocator left there).
EXTENDS Integers, Sequences, FiniteSets, TLC

\* ------------------------------------------------------------------ bounds
\* largest declared or actual grid dimension of the striped calls
MaxDim == 4

\* number of interior cells of the calls whose loop bodies run in any order
OrderCells == 3

\* ------------------------------------------------------- float64 arithmetic
Abs(x) == IF x < 0 THEN -x ELSE x

Sgn(x) == IF x > 0 THEN 1 ELSE IF x < 0 THEN -1 ELSE 0

RECURSIVE GCD(_, _)
GCD(a, b) == IF b = 0 THEN a ELSE GCD(b, a % b)

\* the float n/d; d = 0 gives inf, -inf or nan as numpy's true division does
Rat(n, d) ==
    IF d = 0 THEN <<Sgn(n), 0>>
    ELSE LET g == GCD(Abs(n), Abs(d))
         IN  <<(Sgn(d) * n) \div g, Abs(d) \div g>>

Zero == <<0, 1>>
One == <<1, 1>>
Two == <<2, 1>>
Half == <<1, 2>>
Quarter == <<1, 4>>
NaN == <<0, 0>>
Junk == <<0, -1>>

IsFinite(a) == a[2] > 0
IsNaN(a) == a = NaN

RNeg(a) == <<-a[1], a[2]>>

RAdd(a, b) ==
    IF IsFinite(a) /\ IsFinite(b) THEN Rat(a[1] * b[2] + b[1] * a[2], a[2] * b[2])
    ELSE IF IsNaN(a) \/ IsNaN(b) THEN NaN
    ELSE IF IsFinite(a) THEN b
    ELSE IF IsFinite(b) THEN a
    ELSE IF a = b THEN a ELSE NaN

RSub(a, b) == RAdd(a, RNeg(b))

RMul(a, b) ==
    IF IsFinite(a) /\ IsFinite(b) THEN Rat(a[1] * b[1], a[2] * b[2])
    ELSE IF IsNaN(a) \/ IsNaN(b) \/ a[1] = 0 \/ b[1] = 0 THEN NaN
    ELSE <<Sgn(a[1]) * Sgn(b[1]), 0>>

RDiv(a, b) ==
    IF IsFinite(a) /\ IsFinite(b) THEN Rat(a[1] * b[2], a[2] * b[1])
    ELSE IF IsNaN(a) \/ IsNaN(b) THEN NaN
    ELSE IF IsFinite(a) THEN Zero
    ELSE IF IsFinite(b) THEN <<a[1] * (IF b[1] < 0 THEN -1 ELSE 1), 0>>
    ELSE NaN

\* a < b, a > b, a <= b on floats: every comparison with nan is false
RLt(a, b) ==
    IF IsNaN(a) \/ IsNaN(b) THEN FALSE
    ELSE IF IsFinite(a) /\ IsFinite(b) THEN a[1] * b[2] < b[1] * a[2]
    ELSE IF IsFinite(a) THEN b[1] > 0
    ELSE IF IsFinite(b) THEN a[1] < 0
    ELSE a[1] < b[1]

RGt(a, b) == RLt(b, a)

RLe(a, b) == RLt(a, b) \/ (a = b /\ ~IsNaN(a))

\* np.sign with sign(0) = 1
np_sign_ZeroPositive(a) == <<IF a[1] = 0 THEN 1 ELSE Sgn(a[1]), 1>>

\* np.sign of a float that is not nan, as a float
np_sign(a) == <<Sgn(a[1]), 1>>

\* np.power(a, 2)
np_power2(a) == RMul(a, a)

\* int(x) rounding down instead of towards zero
int_Floor(a) == a[1] \div a[2]

\* int(x) of a finite float: truncation towards zero
int(a) == Sgn(a[1]) * (Abs(a[1]) \div a[2])

\* --------------------------------------------------------- area formulas
\* Each formula returns [v |-> its value, dn |-> the pairs <<x, y>> of the
\* differences x - y that stand in one of its denominators].
\* _surf68 with the numerator not squared
_surf68_NoSquare(phi1, phi2, phi4) ==
    [v  |-> RDiv(RSub(Half, phi1),
                 RMul(RMul(Two, RSub(phi2, phi1)), RSub(phi4, phi1))),
     dn |-> {<<phi2, phi1>>, <<phi4, phi1>>}]

_surf68_Phi2Twice(phi1, phi2, phi4) ==
    [v  |-> RDiv(np_power2(RSub(Half, phi1)),
                 RMul(RMul(Two, RSub(phi2, phi1)), RSub(phi2, phi1))),
     dn |-> {<<phi2, phi1>>, <<phi4, phi1>>}]

_surf68(phi1, phi2, phi4) ==
    [v  |-> RDiv(np_power2(RSub(Half, phi1)),
                 RMul(RMul(Two, RSub(phi2, phi1)), RSub(phi4, phi1))),
     dn |-> {<<phi2, phi1>>, <<phi4, phi1>>}]

\* _surf70 without the factor 0.5
_surf70_NoHalf(phi1, phi2, phi3, phi4) ==
    [v  |-> RAdd(RDiv(RSub(Half, phi1), RSub(phi4, phi1)),
                 RDiv(RSub(Half, phi2), RSub(phi3, phi2))),
     dn |-> {<<phi4, phi1>>, <<phi3, phi2>>}]

_surf70_SecondFromPhi3(phi1, phi2, phi3, phi4) ==
    [v  |-> RMul(Half, RAdd(RDiv(RSub(Half, phi1), RSub(phi4, phi1)),
                            RDiv(RSub(Half, phi3), RSub(phi3, phi2)))),
     dn |-> {<<phi4, phi1>>, <<phi3, phi2>>}]

_surf70(phi1, phi2, phi3, phi4) ==
    [v  |-> RMul(Half, RAdd(RDiv(RSub(Half, phi1), RSub(phi4, phi1)),
                            RDiv(RSub(Half, phi2), RSub(phi3, phi2)))),
     dn |-> {<<phi4, phi1>>, <<phi3, phi2>>}]

\* _surf22 with 2 for -2
_surf22_PlusTwo(phi1, phi3, phi4) ==
    [v  |-> RDiv(np_power2(RSub(phi4, Half)),
                 RMul(RMul(Two, RSub(phi4, phi1)), RSub(phi3, phi4))),
     dn |-> {<<phi4, phi1>>, <<phi3, phi4>>}]

_surf22(phi1, phi3, phi4) ==
    [v  |-> RDiv(np_power2(RSub(phi4, Half)),
                 RMul(RMul(<<-2, 1>>, RSub(phi4, phi1)), RSub(phi3, phi4))),
     dn |-> {<<phi4, phi1>>, <<phi3, phi4>>}]

\* 1.0 - f(...) and f(...) + g(...) of the table's lambdas
Complement(f) == [v |-> RSub(One, f.v), dn |-> f.dn]

\* the mean of f(...) and g(...) for their sum
Plus_Mean(f, g) == [v |-> RMul(Half, RAdd(f.v, g.v)), dn |-> f.dn \cup g.dn]

Plus(f, g) == [v |-> RAdd(f.v, g.v), dn |-> f.dn \cup g.dn]

\* the keys of QUADRANT_CASE_DICT
QUADRANT_CASE_KEYS == {68, 12, 70, 10, 22, 42, 38, 50, 30, 28, 52, 24, 56}

\* the table with entry 38 taking the arguments of entry 22
QUADRANT_CASE_DICT_Wrong38(C, P1, P2, P3, P4) ==
    CASE C = 68 -> _surf68(P1, P2, P4)
      [] C = 12 -> Complement(_surf68(P1, P2, P4))
      [] C = 70 -> _surf70(P1, P2, P3, P4)
      [] C = 10 -> Complement(_surf70(P1, P2, P3, P4))
      [] C = 22 -> _surf22(P1, P3, P4)
      [] C = 42 -> _surf22(P1, P3, P2)
      [] C = 38 -> Complement(_surf22(P1, P3, P4))
      [] C = 50 -> _surf70(P1, P4, P3, P2)
      [] C = 30 -> Complement(_surf70(P1, P4, P3, P2))
      [] C = 28 -> _surf68(P3, P2, P4)
      [] C = 52 -> Complement(_surf68(P3, P2, P4))
      [] C = 24 -> Plus(_surf22(P1, P3, P4), _surf22(P1, P3, P2))
      [] C = 56 -> Plus(_surf68(P1, P2, P4), _surf68(P3, P2, P4))

\* QUADRANT_CASE_DICT[C](P1, P2, P3, P4), for C one of its keys
QUADRANT_CASE_DICT(C, P1, P2, P3, P4) ==
    CASE C = 68 -> _surf68(P1, P2, P4)
      [] C = 12 -> Complement(_surf68(P1, P2, P4))
      [] C = 70 -> _surf70(P1, P2, P3, P4)
      [] C = 10 -> Complement(_surf70(P1, P2, P3, P4))
      [] C = 22 -> _surf22(P1, P3, P4)
      [] C = 42 -> _surf22(P1, P3, P2)
      [] C = 38 -> Complement(_surf22(P1, P3, P2))
      [] C = 50 -> _surf70(P1, P4, P3, P2)
      [] C = 30 -> Complement(_surf70(P1, P4, P3, P2))
      [] C = 28 -> _surf68(P3, P2, P4)
      [] C = 52 -> Complement(_surf68(P3, P2, P4))
      [] C = 24 -> Plus(_surf22(P1, P3, P4), _surf22(P1, P3, P2))
      [] C = 56 -> Plus(_surf68(P1, P2, P4), _surf68(P3, P2, P4))

\* the crossing value without the two factors 0.5
Crossing_NoHalf(Pa, Pb) ==
    int(RSub(np_sign(RSub(Pa, Half)), np_sign(RSub(Pb, Half))))

\* the crossing value int(0.5 * np.sign(Pa - 0.5) - 0.5 * np.sign(Pb - 0.5))
Crossing(Pa, Pb) ==
    int(RSub(RMul(Half, np_sign(RSub(Pa, Half))),
             RMul(Half, np_sign(RSub(Pb, Half)))))

\* the crossing values with D3 taken from (P3, P4) instead of (P4, P3)
CrossingValues_D3Swapped(P1, P2, P3, P4) ==
    <<Crossing(P1, P2), Crossing(P2, P3), Crossing(P3, P4), Crossing(P1, P4)>>

\* the four crossing values D1..D4 of one quadrant
CrossingValues(P1, P2, P3, P4) ==
    <<Crossing(P1, P2), Crossing(P2, P3), Crossing(P4, P3), Crossing(P1, P4)>>

\* the case identifier C
CaseIdentifier(D) == (1 + D[1]) + 3 * (1 + D[2]) + 9 * (1 + D[3]) + 27 * (1 + D[4])

NoC == -1

\* the cell pass without the short cut of the quadrant with no fire
QuadrantCell_NoUnburntShortCut(P1, P2, P3, P4) ==
    IF RGt(P1, Half) /\ RGt(P2, Half) /\ RGt(P3, Half) /\ RGt(P4, Half)
    THEN [how |-> "full", P |-> <<P1, P2, P3, P4>>, D |-> <<>>, C |-> NoC,
          area |-> One, dn |-> {}]
    ELSE LET D == CrossingValues(P1, P2, P3, P4)
             C == CaseIdentifier(D)
         IN  IF C \in QUADRANT_CASE_KEYS
             THEN LET f == QUADRANT_CASE_DICT(C, P1, P2, P3, P4)
                  IN  [how |-> "case", P |-> <<P1, P2, P3, P4>>, D |-> D, C |-> C,
                       area |-> f.v, dn |-> f.dn]
             ELSE [how |-> "invalid", P |-> <<P1, P2, P3, P4>>, D |-> D, C |-> C,
                   area |-> Junk, dn |-> {}]

\* One pass of the body of _compute_quadrant_area's loops, for one cell:
\* how = "full" / "none" (the two short cuts), "case" (a formula of the table
\* was evaluated) or "invalid" (C is no key of the table).
QuadrantCell(P1, P2, P3, P4) ==
    IF RGt(P1, Half) /\ RGt(P2, Half) /\ RGt(P3, Half) /\ RGt(P4, Half)
    THEN [how |-> "full", P |-> <<P1, P2, P3, P4>>, D |-> <<>>, C |-> NoC,
          area |-> One, dn |-> {}]
    ELSE IF RLt(P1, Half) /\ RLt(P2, Half) /\ RLt(P3, Half) /\ RLt(P4, Half)
    THEN [how |-> "none", P |-> <<P1, P2, P3, P4>>, D |-> <<>>, C |-> NoC,
          area |-> Zero, dn |-> {}]
    ELSE LET D == CrossingValues(P1, P2, P3, P4)
             C == CaseIdentifier(D)
         IN  IF C \in QUADRANT_CASE_KEYS
             THEN LET f == QUADRANT_CASE_DICT(C, P1, P2, P3, P4)
                  IN  [how |-> "case", P |-> <<P1, P2, P3, P4>>, D |-> D, C |-> C,
                       area |-> f.v, dn |-> f.dn]
             ELSE [how |-> "invalid", P |-> <<P1, P2, P3, P4>>, D |-> D, C |-> C,
                   area |-> Junk, dn |-> {}]

\* ------------------------------------------------------------------ state
VARIABLES
    fn,             \* the function that was called
    phi,            \* its argument phi: an array [(row, column) -> float]
    ny, nx,         \* its arguments ny and nx, the declared dimensions
    pc,             \* "enter", "wa", "interp", "quad", "combine", "returned", "raised"
    j, i,           \* the indices of the running loops
    S,              \* the local S of SGBA_WA / SGBA_EFFR
    aux,            \* the 8 interpolated arrays of SGBA_EFFR, by name
    q,              \* which of the 4 calls of _compute_quadrant_area is running
    args,           \* <<phi1, phi2, phi3, phi4>> of the running call
    quadrant_area,  \* the local quadrant_area of the running call
    areas,          \* the arrays returned by the calls that are over
    ret,            \* the returned array, once pc = "returned"
    err,            \* the exception raised, once pc = "raised"
    printed,        \* what was printed
    last,           \* the last cell pass of _compute_quadrant_area
    writes,         \* how often each cell of S and of quadrant_area was written
    fill,           \* what np.empty leaves in the cells of a new array
    prev            \* the outcome of the call before this one, if any

vars == <<fn, phi, ny, nx, pc, j, i, S, aux, q, args, quadrant_area, areas,
          ret, err, printed, last, writes, fill, prev>>

\* the three entry points of the two modules, and the helper called on its own
WA == "SGBA_WA"
EFFR == "SGBA_EFFR"
LEGACY_EFFR == "blaze.py:SGBA_EFFR"
QUADRANT == "_compute_quadrant_area"

AuxNames == {"south_west", "south", "south_east", "east",
             "north_east", "north", "north_west", "west"}

NoArray == <<>>
NoErr == [type |-> "none", key |-> <<>>]
NoPass == [how |-> "nil", P |-> <<>>, D |-> <<>>, C |-> NoC, area |-> Junk,
           dn |-> {}, q |-> 0, j |-> 0, i |-> 0]

NoWrites == [S |-> NoArray, quadrant_area |-> NoArray]
NoPrev == [pc |-> "none", ret |-> NoArray, err |-> NoErr]

\* np.empty((rows, columns))
np_empty(rows, columns) == [c \in (0 .. rows - 1) \X (0 .. columns - 1) |-> fill]

\* the write counts of a new array, of an item assignment a[r, c] = ..., and
\* of an array that a whole-array expression produced
Unwritten(rows, columns) == [c \in (0 .. rows - 1) \X (0 .. columns - 1) |-> 0]

Written(w, r, c) == [w EXCEPT ![<<r, c>>] = @ + 1]

WholeArray(a) == [c \in DOMAIN a |-> 1]

\* the shape of an array
Rows(a) == Cardinality({c[1] : c \in DOMAIN a})
Columns(a) == Cardinality({c[2] : c \in DOMAIN a})

\* a[r, c] raises IndexError when the index is outside the array
InBounds(a, r, c) == <<r, c>> \in DOMAIN a

\* range(1, ny - 1) x range(1, nx - 1): the first index pair, the next one, the end
LoopStart_SecondColumn == IF nx >= 3 THEN <<1, 2>> ELSE <<IF ny > 1 THEN ny - 1 ELSE 1, 1>>
LoopStart == IF nx >= 3 THEN <<1, 1>> ELSE <<IF ny > 1 THEN ny - 1 ELSE 1, 1>>
LoopNext == IF i < nx - 2 THEN <<j, i + 1>> ELSE <<j + 1, 1>>
LoopOver == j > ny - 2

\* the 3 x 3 block of phi around (j, i) can be read
BlockReadable == \A dj \in {-1, 0, 1}, di \in {-1, 0, 1} : InBounds(phi, j + dj, i + di)

\* the interior cells of a (rows x columns) array
Interior(rows, columns) == (1 .. rows - 2) \X (1 .. columns - 2)

Raise(type, key) ==
    /\ pc' = "raised"
    /\ err' = [type |-> type, key |-> key]
    /\ S' = NoArray
    /\ aux' = NoArray
    /\ args' = NoArray
    /\ quadrant_area' = NoArray
    /\ areas' = <<>>
    /\ writes' = NoWrites
    /\ UNCHANGED <<j, i, q, ret>>

\* ------------------------------------------------------------------ SGBA_WA
\* the stencil with 3/16 for 3/32
WA_Stencil_EdgeWeight(r, c) ==
    RAdd(RAdd(RMul(Rat(9, 16), phi[r, c]),
              RMul(Rat(3, 16), RAdd(RAdd(RAdd(phi[r, c - 1], phi[r - 1, c]),
                                         phi[r, c + 1]), phi[r + 1, c]))),
         RMul(Rat(1, 64), RAdd(RAdd(RAdd(phi[r - 1, c - 1], phi[r - 1, c + 1]),
                                    phi[r + 1, c - 1]), phi[r + 1, c + 1])))

\* the stencil with phi[r, c - 1] read twice and phi[r, c + 1] never
WA_Stencil_WestTwice(r, c) ==
    RAdd(RAdd(RMul(Rat(9, 16), phi[r, c]),
              RMul(Rat(3, 32), RAdd(RAdd(RAdd(phi[r, c - 1], phi[r - 1, c]),
                                         phi[r, c - 1]), phi[r + 1, c]))),
         RMul(Rat(1, 64), RAdd(RAdd(RAdd(phi[r - 1, c - 1], phi[r - 1, c + 1]),
                                    phi[r + 1, c - 1]), phi[r + 1, c + 1])))

\* the stencil with 1/32 for 1/64
WA_Stencil_CornerWeight(r, c) ==
    RAdd(RAdd(RMul(Rat(9, 16), phi[r, c]),
              RMul(Rat(3, 32), RAdd(RAdd(RAdd(phi[r, c - 1], phi[r - 1, c]),
                                         phi[r, c + 1]), phi[r + 1, c]))),
         RMul(Rat(1, 32), RAdd(RAdd(RAdd(phi[r - 1, c - 1], phi[r - 1, c + 1]),
                                    phi[r + 1, c - 1]), phi[r + 1, c + 1])))

\* the stencil reading the west neighbour from S once S holds it
WA_Stencil_GaussSeidel(r, c) ==
    RAdd(RAdd(RMul(Rat(9, 16), phi[r, c]),
              RMul(Rat(3, 32),
                   RAdd(RAdd(RAdd(IF S[r, c - 1] = Junk THEN phi[r, c - 1]
                                                        ELSE S[r, c - 1],
                                  phi[r - 1, c]),
                             phi[r, c + 1]), phi[r + 1, c]))),
         RMul(Rat(1, 64), RAdd(RAdd(RAdd(phi[r - 1, c - 1], phi[r - 1, c + 1]),
                                    phi[r + 1, c - 1]), phi[r + 1, c + 1])))

\* S[j, i] of SGBA_WA's loop body
WA_Stencil(r, c) ==
    RAdd(RAdd(RMul(Rat(9, 16), phi[r, c]),
              RMul(Rat(3, 32), RAdd(RAdd(RAdd(phi[r, c - 1], phi[r - 1, c]),
                                         phi[r, c + 1]), phi[r + 1, c]))),
         RMul(Rat(1, 64), RAdd(RAdd(RAdd(phi[r - 1, c - 1], phi[r - 1, c + 1]),
                                    phi[r + 1, c - 1]), phi[r + 1, c + 1])))

\* S[j, i] of the loop body of blaze.py's SGBA_WA
blaze_py_WA_Stencil(r, c) ==
    RAdd(RAdd(RMul(RDiv(<<9, 1>>, <<16, 1>>), phi[r, c]),
              RMul(RDiv(<<3, 1>>, <<32, 1>>),
                   RAdd(RAdd(RAdd(phi[r, c - 1], phi[r - 1, c]),
                             phi[r, c + 1]), phi[r + 1, c]))),
         RMul(RDiv(One, <<64, 1>>),
              RAdd(RAdd(RAdd(phi[r - 1, c - 1], phi[r - 1, c + 1]),
                        phi[r + 1, c - 1]), phi[r + 1, c + 1])))

\* the allocations at the head of the called function, up to its first loop
Enter ==
    /\ pc = "enter"
    /\ S' = IF fn = QUADRANT THEN NoArray ELSE np_empty(ny, nx)
    /\ aux' = IF fn \in {EFFR, LEGACY_EFFR}
              THEN [n \in AuxNames |-> np_empty(ny, nx)] ELSE NoArray
    /\ quadrant_area' = IF fn = QUADRANT THEN np_empty(ny, nx) ELSE NoArray
    /\ writes' = [S |-> IF fn = QUADRANT THEN NoArray ELSE Unwritten(ny, nx),
                  quadrant_area |->
                      IF fn = QUADRANT THEN Unwritten(ny, nx) ELSE NoArray]
    /\ pc' = CASE fn = WA -> "wa"
               [] fn = QUADRANT -> "quad"
               [] OTHER -> "interp"
    /\ j' = LoopStart[1]
    /\ i' = LoopStart[2]
    /\ UNCHANGED <<fn, phi, ny, nx, q, args, areas, ret, err, printed, last,
                   fill, prev>>

\* one pass of the loops' body storing the mean in phi[j, i] instead of S[j, i]
WA_Cell_InPlace ==
    /\ pc = "wa"
    /\ ~LoopOver
    /\ IF BlockReadable
       THEN /\ phi' = [phi EXCEPT ![<<j, i>>] = WA_Stencil(j, i)]
            /\ j' = LoopNext[1]
            /\ i' = LoopNext[2]
            /\ UNCHANGED <<pc, S, aux, q, args, quadrant_area, areas, ret, err,
                           writes>>
       ELSE Raise("IndexError", <<>>) /\ UNCHANGED phi
    /\ UNCHANGED <<fn, ny, nx, printed, last, fill, prev>>

\* one pass of the body of SGBA_WA's loops
WA_Cell ==
    /\ pc = "wa"
    /\ ~LoopOver
    /\ IF BlockReadable
       THEN /\ S' = [S EXCEPT ![<<j, i>>] = WA_Stencil(j, i)]
            /\ writes' = [writes EXCEPT !.S = Written(@, j, i)]
            /\ j' = LoopNext[1]
            /\ i' = LoopNext[2]
            /\ UNCHANGED <<pc, aux, q, args, quadrant_area, areas, ret, err>>
       ELSE Raise("IndexError", <<>>)
    /\ UNCHANGED <<fn, phi, ny, nx, printed, last, fill, prev>>

\* return S
WA_Return ==
    /\ pc = "wa"
    /\ LoopOver
    /\ pc' = "returned"
    /\ ret' = S
    /\ UNCHANGED <<fn, phi, ny, nx, j, i, S, aux, q, args, quadrant_area, areas,
                   err, printed, last, writes, fill, prev>>

\* ---------------------------------------------------------------- SGBA_EFFR
Mean2(a, b) == RMul(Half, RAdd(a, b))

Mean4(a, b, c, d) == RMul(Quarter, RAdd(RAdd(RAdd(a, b), c), d))

\* the 8 values with phi_north_west averaged over the north-east cells
Interpolate_NorthWestFromEast(r, c) ==
    [south_west |-> Mean4(phi[r - 1, c - 1], phi[r - 1, c], phi[r, c], phi[r, c - 1]),
     south      |-> Mean2(phi[r - 1, c], phi[r, c]),
     south_east |-> Mean4(phi[r - 1, c], phi[r - 1, c + 1], phi[r, c + 1], phi[r, c]),
     east       |-> Mean2(phi[r, c + 1], phi[r, c]),
     north_east |-> Mean4(phi[r, c], phi[r, c + 1], phi[r + 1, c + 1], phi[r + 1, c]),
     north      |-> Mean2(phi[r + 1, c], phi[r, c]),
     north_west |-> Mean4(phi[r, c + 1], phi[r, c], phi[r + 1, c], phi[r + 1, c + 1]),
     west       |-> Mean2(phi[r, c - 1], phi[r, c])]

\* the 8 values the first loop of SGBA_EFFR writes for cell (r, c)
Interpolate(r, c) ==
    [south_west |-> Mean4(phi[r - 1, c - 1], phi[r - 1, c], phi[r, c], phi[r, c - 1]),
     south      |-> Mean2(phi[r - 1, c], phi[r, c]),
     south_east |-> Mean4(phi[r - 1, c], phi[r - 1, c + 1], phi[r, c + 1], phi[r, c]),
     east       |-> Mean2(phi[r, c + 1], phi[r, c]),
     north_east |-> Mean4(phi[r, c], phi[r, c + 1], phi[r + 1, c + 1], phi[r + 1, c]),
     north      |-> Mean2(phi[r + 1, c], phi[r, c]),
     north_west |-> Mean4(phi[r, c - 1], phi[r, c], phi[r + 1, c], phi[r + 1, c - 1]),
     west       |-> Mean2(phi[r, c - 1], phi[r, c])]

\* the arguments with south and south_west exchanged in the first call
QuadrantArgs_SouthSwapped(k) ==
    CASE k = 1 -> <<aux["south"], aux["south_west"], phi, aux["west"]>>
      [] k = 2 -> <<aux["south"], aux["south_east"], aux["east"], phi>>
      [] k = 3 -> <<phi, aux["east"], aux["north_east"], aux["north"]>>
      [] k = 4 -> <<aux["west"], phi, aux["north"], aux["north_west"]>>

\* the arguments phi1..phi4 of the k-th call of _compute_quadrant_area
QuadrantArgs(k) ==
    CASE k = 1 -> <<aux["south_west"], aux["south"], phi, aux["west"]>>
      [] k = 2 -> <<aux["south"], aux["south_east"], aux["east"], phi>>
      [] k = 3 -> <<phi, aux["east"], aux["north_east"], aux["north"]>>
      [] k = 4 -> <<aux["west"], phi, aux["north"], aux["north_west"]>>

\* one pass of the body of SGBA_EFFR's first loops
Interp_Cell ==
    /\ pc = "interp"
    /\ ~LoopOver
    /\ IF BlockReadable
       THEN /\ aux' = [n \in AuxNames |->
                          [aux[n] EXCEPT ![<<j, i>>] = Interpolate(j, i)[n]]]
            /\ j' = LoopNext[1]
            /\ i' = LoopNext[2]
            /\ UNCHANGED <<pc, S, q, args, quadrant_area, areas, ret, err, writes>>
       ELSE Raise("IndexError", <<>>)
    /\ UNCHANGED <<fn, phi, ny, nx, printed, last, fill, prev>>

\* the first call of _compute_quadrant_area
Quadrant_Call ==
    /\ pc = "interp"
    /\ LoopOver
    /\ pc' = "quad"
    /\ q' = 1
    /\ args' = QuadrantArgs(1)
    /\ quadrant_area' = np_empty(ny, nx)
    /\ writes' = [writes EXCEPT !.quadrant_area = Unwritten(ny, nx)]
    /\ j' = LoopStart[1]
    /\ i' = LoopStart[2]
    /\ UNCHANGED <<fn, phi, ny, nx, S, aux, areas, ret, err, printed, last,
                   fill, prev>>

\* blaze.py's chain with the branch C == 42 calling _surf22(P1, P3, P4)
blaze_py_case_Elif42(C, P1, P2, P3, P4) ==
    CASE C = 68 -> _surf68(P1, P2, P4).v
      [] C = 12 -> RSub(One, _surf68(P1, P2, P4).v)
      [] C = 70 -> _surf70(P1, P2, P3, P4).v
      [] C = 10 -> RSub(One, _surf70(P1, P2, P3, P4).v)
      [] C = 22 -> _surf22(P1, P3, P4).v
      [] C = 42 -> _surf22(P1, P3, P4).v
      [] C = 38 -> RSub(One, _surf22(P1, P3, P2).v)
      [] C = 50 -> _surf70(P1, P4, P3, P2).v
      [] C = 30 -> RSub(One, _surf70(P1, P4, P3, P2).v)
      [] C = 28 -> _surf68(P3, P2, P4).v
      [] C = 52 -> RSub(One, _surf68(P3, P2, P4).v)
      [] C = 24 -> RAdd(_surf22(P1, P3, P4).v, _surf22(P1, P3, P2).v)
      [] C = 56 -> RAdd(_surf68(P1, P2, P4).v, _surf68(P3, P2, P4).v)
      [] OTHER -> Zero

\* blaze.py's chain if C == 68 ... elif C == 56 ... else: the area it assigns
blaze_py_case(C, P1, P2, P3, P4) ==
    CASE C = 68 -> _surf68(P1, P2, P4).v
      [] C = 12 -> RSub(One, _surf68(P1, P2, P4).v)
      [] C = 70 -> _surf70(P1, P2, P3, P4).v
      [] C = 10 -> RSub(One, _surf70(P1, P2, P3, P4).v)
      [] C = 22 -> _surf22(P1, P3, P4).v
      [] C = 42 -> _surf22(P1, P3, P2).v
      [] C = 38 -> RSub(One, _surf22(P1, P3, P2).v)
      [] C = 50 -> _surf70(P1, P4, P3, P2).v
      [] C = 30 -> RSub(One, _surf70(P1, P4, P3, P2).v)
      [] C = 28 -> _surf68(P3, P2, P4).v
      [] C = 52 -> RSub(One, _surf68(P3, P2, P4).v)
      [] C = 24 -> RAdd(_surf22(P1, P3, P4).v, _surf22(P1, P3, P2).v)
      [] C = 56 -> RAdd(_surf68(P1, P2, P4).v, _surf68(P3, P2, P4).v)
      [] OTHER -> Zero

\* what the dispatch on C does with the cell: the table's value, or, for an
\* identifier that is no key, KeyError (the package) or 0. (blaze.py)
Dispatch(f, pass) ==
    IF pass.how \in {"full", "none"} THEN [raise |-> FALSE, area |-> pass.area]
    ELSE IF f = LEGACY_EFFR
         THEN [raise |-> FALSE,
               area |-> blaze_py_case(pass.C, pass.P[1], pass.P[2],
                                      pass.P[3], pass.P[4])]
    ELSE IF pass.how # "invalid" THEN [raise |-> FALSE, area |-> pass.area]
    ELSE [raise |-> TRUE, area |-> Junk]

\* what the dispatch prints
Diagnostic(f, pass, r, c) ==
    IF pass.how # "invalid" THEN <<>>
    ELSE IF f = LEGACY_EFFR THEN <<[msg |-> "default at", at |-> <<c, r>>]>>
    ELSE <<[msg |-> "Error in quadrant computation: invalid identifier",
            at |-> <<>>]>>

\* one pass of the body of _compute_quadrant_area's loops
Quadrant_Cell ==
    /\ pc = "quad"
    /\ ~LoopOver
    /\ IF \A k \in 1 .. 4 : InBounds(args[k], j, i)
       THEN LET pass == QuadrantCell(args[1][j, i], args[2][j, i],
                                     args[3][j, i], args[4][j, i])
                d == Dispatch(fn, pass)
            IN  /\ last' = pass @@ [q |-> q, j |-> j, i |-> i]
                /\ printed' = printed \o Diagnostic(fn, pass, j, i)
                /\ IF d.raise
                   THEN Raise("KeyError", <<pass.C>>)
                   ELSE /\ quadrant_area' = [quadrant_area EXCEPT ![<<j, i>>] = d.area]
                        /\ writes' = [writes EXCEPT
                                          !.quadrant_area = Written(@, j, i)]
                        /\ j' = LoopNext[1]
                        /\ i' = LoopNext[2]
                        /\ UNCHANGED <<pc, S, aux, q, args, areas, ret, err>>
       ELSE /\ Raise("IndexError", <<>>)
            /\ UNCHANGED <<printed, last>>
    /\ UNCHANGED <<fn, phi, ny, nx, fill, prev>>

\* return quadrant_area, and the next call of _compute_quadrant_area if any
Quadrant_Return ==
    /\ pc = "quad"
    /\ LoopOver
    /\ IF fn = QUADRANT
       THEN /\ pc' = "returned"
            /\ ret' = quadrant_area
            /\ UNCHANGED <<j, i, q, args, quadrant_area, areas, writes>>
       ELSE /\ areas' = Append(areas, quadrant_area)
            /\ ret' = ret
            /\ IF q < 4
               THEN /\ q' = q + 1
                    /\ args' = QuadrantArgs(q + 1)
                    /\ quadrant_area' = np_empty(ny, nx)
                    /\ writes' = [writes EXCEPT
                                      !.quadrant_area = Unwritten(ny, nx)]
                    /\ j' = LoopStart[1]
                    /\ i' = LoopStart[2]
                    /\ pc' = pc
               ELSE /\ pc' = "combine"
                    /\ UNCHANGED <<j, i, q, args, quadrant_area, writes>>
    /\ UNCHANGED <<fn, phi, ny, nx, S, aux, err, printed, last, fill, prev>>

\* a1 + a2 + a3 + a4 on whole arrays, without the factor 0.25
Combine4_Sum(a) ==
    [c \in DOMAIN a[1] |->
        IF \E k \in 1 .. 4 : a[k][c] = Junk THEN Junk
        ELSE RAdd(RAdd(RAdd(a[1][c], a[2][c]), a[3][c]), a[4][c])]

\* 0.25 * (a1 + a2 + a3 + a4) on whole arrays; a cell never written stays Junk
Combine4(a) ==
    [c \in DOMAIN a[1] |->
        IF \E k \in 1 .. 4 : a[k][c] = Junk THEN Junk
        ELSE RMul(Quarter, RAdd(RAdd(RAdd(a[1][c], a[2][c]), a[3][c]), a[4][c]))]

\* S = 0.25 * (...); return S
EFFR_Return ==
    /\ pc = "combine"
    /\ S' = Combine4(areas)
    /\ ret' = S'
    /\ writes' = [writes EXCEPT !.S = WholeArray(S')]
    /\ pc' = "returned"
    /\ UNCHANGED <<fn, phi, ny, nx, j, i, aux, q, args, quadrant_area, areas,
                   err, printed, last, fill, prev>>

\* ------------------------------------------------------------ a second call
\* The caller calls the same function again with the same arguments, once the
\* first call has returned or raised. The locals of the first call are gone;
\* what np.empty leaves in a new array need not be what it left the first time.
Call_Again ==
    /\ pc \in {"returned", "raised"}
    /\ prev = NoPrev
    /\ prev' = [pc |-> pc, ret |-> ret, err |-> err]
    /\ fill' \in {Junk, Zero}
    /\ pc' = "enter"
    /\ j' = 0
    /\ i' = 0
    /\ q' = 0
    /\ S' = NoArray
    /\ aux' = NoArray
    /\ quadrant_area' = NoArray
    /\ areas' = <<>>
    /\ ret' = NoArray
    /\ err' = NoErr
    /\ last' = NoPass
    /\ writes' = NoWrites
    /\ UNCHANGED <<fn, phi, ny, nx, args, printed>>

\* --------------------------------------------- a call on the transposed array
\* The caller calls the same function on phi.T, with the two dimensions
\* exchanged, once the call on phi has returned or raised.
Call_Transposed ==
    /\ pc \in {"returned", "raised"}
    /\ prev = NoPrev
    /\ prev' = [pc |-> pc, ret |-> ret, err |-> err]
    /\ phi' = [c \in {<<d[2], d[1]>> : d \in DOMAIN phi} |-> phi[c[2], c[1]]]
    /\ ny' = nx
    /\ nx' = ny
    /\ pc' = "enter"
    /\ j' = 0
    /\ i' = 0
    /\ q' = 0
    /\ S' = NoArray
    /\ aux' = NoArray
    /\ quadrant_area' = NoArray
    /\ areas' = <<>>
    /\ ret' = NoArray
    /\ err' = NoErr
    /\ last' = NoPass
    /\ writes' = NoWrites
    /\ UNCHANGED <<fn, args, printed, fill>>

\* ------------------------------------------- the area formulas on scalars
\* tests/unit/test_blaze.py calls the three formulas with Python numbers.
\* np.power makes the numerator of _surf68 and _surf22 a numpy float, whose
\* division by zero gives inf or nan; _surf70 divides Python numbers, and
\* Python raises ZeroDivisionError on a zero denominator.
SURF68 == "_surf68"
SURF70 == "_surf70"
SURF22 == "_surf22"

Formula_Return(v) ==
    /\ pc' = "returned"
    /\ ret' = v
    /\ UNCHANGED <<fn, phi, ny, nx, j, i, S, aux, q, args, quadrant_area, areas,
                   err, printed, last, writes, fill, prev>>

Call_surf68 ==
    /\ fn = SURF68
    /\ pc = "enter"
    /\ Formula_Return(_surf68(args[1], args[2], args[3]).v)

Call_surf22 ==
    /\ fn = SURF22
    /\ pc = "enter"
    /\ Formula_Return(_surf22(args[1], args[2], args[3]).v)

Call_surf70 ==
    /\ fn = SURF70
    /\ pc = "enter"
    /\ IF args[4] = args[1] \/ args[3] = args[2]
       THEN /\ Raise("ZeroDivisionError", <<>>)
            /\ UNCHANGED <<fn, phi, ny, nx, printed, last, fill, prev>>
       ELSE Formula_Return(_surf70(args[1], args[2], args[3], args[4]).v)

\* ------------------------------------------------- loop bodies in any order
\* The bodies of the loops over (j, i), taken for the interior cells in any
\* order, one cell at a time: the cells of the running loop that no pass has
\* taken yet are those that np.empty's content still fills.
Untaken(a) == {c \in Interior(ny, nx) : a[c] = Junk}

\* the loop indices once the passes of a loop have left the cells in rest
LoopLeft(rest) == IF rest = {} THEN <<ny - 1, 1>> ELSE <<j, i>>

Any_WA_Cell ==
    /\ pc = "wa"
    /\ \E c \in Untaken(S) :
          /\ S' = [S EXCEPT ![c] = WA_Stencil(c[1], c[2])]
          /\ writes' = [writes EXCEPT !.S = Written(@, c[1], c[2])]
          /\ j' = LoopLeft(Untaken(S) \ {c})[1]
          /\ i' = LoopLeft(Untaken(S) \ {c})[2]
    /\ UNCHANGED <<fn, phi, ny, nx, pc, aux, q, args, quadrant_area, areas, ret,
                   err, printed, last, fill, prev>>

Any_Interp_Cell ==
    /\ pc = "interp"
    /\ \E c \in Untaken(aux["south"]) :
          /\ aux' = [n \in AuxNames |->
                        [aux[n] EXCEPT ![c] = Interpolate(c[1], c[2])[n]]]
          /\ j' = LoopLeft(Untaken(aux["south"]) \ {c})[1]
          /\ i' = LoopLeft(Untaken(aux["south"]) \ {c})[2]
    /\ UNCHANGED <<fn, phi, ny, nx, pc, S, q, args, quadrant_area, areas, ret,
                   err, printed, last, writes, fill, prev>>

Any_Quadrant_Cell ==
    /\ pc = "quad"
    /\ \E c \in Untaken(quadrant_area) :
          LET pass == QuadrantCell(args[1][c], args[2][c], args[3][c], args[4][c])
              d == Dispatch(fn, pass)
          IN  /\ last' = pass @@ [q |-> q, j |-> c[1], i |-> c[2]]
              /\ printed' = printed \o Diagnostic(fn, pass, c[1], c[2])
              /\ IF d.raise
                 THEN Raise("KeyError", <<pass.C>>)
                 ELSE /\ quadrant_area' = [quadrant_area EXCEPT ![c] = d.area]
                      /\ writes' = [writes EXCEPT
                                        !.quadrant_area = Written(@, c[1], c[2])]
                      /\ j' = LoopLeft(Untaken(quadrant_area) \ {c})[1]
                      /\ i' = LoopLeft(Untaken(quadrant_area) \ {c})[2]
                      /\ UNCHANGED <<pc, S, aux, q, args, areas, ret, err>>
    /\ UNCHANGED <<fn, phi, ny, nx, fill, prev>>

\* ------------------------------------------------------------------ inputs
\* the values of phi of the 3 x 3 calls: both sides of 0.5, and one above 1
Levels == {Rat(1, 5), Rat(3, 5), Rat(7, 5)}

\* the two values of the tests' striped fixtures
TwoLevels == {Rat(1, 5), Rat(3, 5)}

\* the values of phi of the striped calls: 1/5 and 4/5 have 0.5 as their mean
StripeLevels == {Rat(1, 5), Rat(3, 5), Rat(4, 5)}

\* the values of one quadrant when _compute_quadrant_area is called on its own
QuadrantLevels == {Rat(-2, 5), Zero, Rat(1, 5), Rat(2, 5), Half, Rat(3, 5),
                   Rat(4, 5), One, Rat(7, 5)}

Cells(rows, columns) == (0 .. rows - 1) \X (0 .. columns - 1)

\* every 3 x 3 array over TwoLevels, and every 3 x 3 array over Levels whose
\* four corner cells hold the same value
Corner(c) == c[1] # 1 /\ c[2] # 1

Grids3 ==
    [Cells(3, 3) -> TwoLevels]
    \cup {[c \in Cells(3, 3) |-> IF Corner(c) THEN k ELSE g[c]] :
             g \in [Cells(3, 3) \ {c \in Cells(3, 3) : Corner(c)} -> Levels],
             k \in Levels}

\* the arrays of the tests' fixture level_set_case, and the constant 0.5
Fixture(rows) == [c \in Cells(3, 3) |-> rows[c[1] + 1][c[2] + 1]]

Fixtures ==
    LET a == Rat(1, 5)
        b == Rat(3, 5)
    IN  {[c \in Cells(3, 3) |-> Zero],
         [c \in Cells(3, 3) |-> One],
         [c \in Cells(3, 3) |-> Half],
         Fixture(<<<<Zero, a, Zero>>, <<a, b, a>>, <<Zero, a, Zero>>>>),
         Fixture(<<<<a, b, a>>, <<a, b, a>>, <<a, b, a>>>>),
         Fixture(<<<<a, a, a>>, <<b, b, b>>, <<a, a, a>>>>)}

\* the (rows x columns) arrays over L that are constant along each column
Stripes(rows, columns, L) ==
    {[c \in Cells(rows, columns) |-> p[c[2]]] : p \in [0 .. columns - 1 -> L]}

Dims == 3 .. MaxDim

EntryPoints == {WA, EFFR, LEGACY_EFFR}

InitCall(f, g, a, dy, dx) ==
    /\ fn = f
    /\ phi = g
    /\ ny = dy
    /\ nx = dx
    /\ pc = "enter"
    /\ j = 0
    /\ i = 0
    /\ S = NoArray
    /\ aux = NoArray
    /\ q = 0
    /\ args = a
    /\ quadrant_area = NoArray
    /\ areas = <<>>
    /\ ret = NoArray
    /\ err = NoErr
    /\ printed = <<>>
    /\ last = NoPass
    /\ writes = NoWrites
    /\ fill = Junk
    /\ prev = NoPrev

\* a call of one of the entry points with the shape of phi declared: on a
\* 3 x 3 array, or on a striped array of any shape
Init ==
    \/ \E f \in EntryPoints, g \in Grids3 \cup Fixtures :
          InitCall(f, g, NoArray, 3, 3)
    \/ \E f \in EntryPoints, ay \in Dims, ax \in Dims :
          \E g \in Stripes(ay, ax, StripeLevels) : InitCall(f, g, NoArray, ay, ax)

\* a call of one of the entry points on a striped array of any shape, with any
\* dimensions declared
InitShape ==
    \E f \in EntryPoints, ay \in Dims, ax \in Dims, dy \in Dims, dx \in Dims :
        \E g \in Stripes(ay, ax, TwoLevels) : InitCall(f, g, NoArray, dy, dx)

\* a call of SGBA_WA or SGBA_EFFR on a striped array of 3 rows with
\* OrderCells interior cells
InitOrder ==
    \E f \in {WA, EFFR} :
        \E g \in Stripes(3, OrderCells + 2, StripeLevels) :
            InitCall(f, g, NoArray, 3, OrderCells + 2)

NextOrder ==
    \/ Enter
    \/ Any_WA_Cell
    \/ WA_Return
    \/ Any_Interp_Cell
    \/ Quadrant_Call
    \/ Any_Quadrant_Cell
    \/ Quadrant_Return
    \/ EFFR_Return

OrderSpec == InitOrder /\ [][NextOrder]_vars

\* two calls in a row of SGBA_WA or SGBA_EFFR on a fixture of the tests or
\* on a striped array of any shape
InitTwice ==
    \/ \E f \in {WA, EFFR}, g \in Fixtures : InitCall(f, g, NoArray, 3, 3)
    \/ \E f \in {WA, EFFR}, ay \in Dims, ax \in Dims :
          \E g \in Stripes(ay, ax, StripeLevels) : InitCall(f, g, NoArray, ay, ax)

NextTwice ==
    \/ Enter
    \/ WA_Cell
    \/ WA_Return
    \/ Interp_Cell
    \/ Quadrant_Call
    \/ Quadrant_Cell
    \/ Quadrant_Return
    \/ EFFR_Return
    \/ Call_Again

TwiceSpec == InitTwice /\ [][NextTwice]_vars

\* the transposed array
Transpose(g) == [c \in {<<d[2], d[1]>> : d \in DOMAIN g} |-> g[c[2], c[1]]]

\* a call of one of the entry points on a fixture of the tests or on a 3 x 3
\* array that is constant along each column or along each row
InitStripe ==
    \E f \in EntryPoints :
        \/ \E g \in Fixtures : InitCall(f, g, NoArray, 3, 3)
        \/ \E g \in Stripes(3, 3, QuadrantLevels) :
              \/ InitCall(f, g, NoArray, 3, 3)
              \/ InitCall(f, Transpose(g), NoArray, 3, 3)

\* a call of SGBA_EFFR on a square array, then on its transpose
InitTranspose ==
    \/ \E g \in Grids3 \cup Fixtures : InitCall(EFFR, g, NoArray, 3, 3)
    \/ \E d \in Dims :
          \E g \in Stripes(d, d, StripeLevels) : InitCall(EFFR, g, NoArray, d, d)

NextTranspose ==
    \/ Enter
    \/ Interp_Cell
    \/ Quadrant_Call
    \/ Quadrant_Cell
    \/ Quadrant_Return
    \/ EFFR_Return
    \/ Call_Transposed

TransposeSpec == InitTranspose /\ [][NextTranspose]_vars

\* one call of one area formula on scalar arguments
InitFormula ==
    \/ \E f \in {SURF68, SURF22} :
          \E a \in QuadrantLevels, b \in QuadrantLevels, c \in QuadrantLevels :
              InitCall(f, NoArray, <<a, b, c>>, 0, 0)
    \/ \E a \in QuadrantLevels, b \in QuadrantLevels,
          c \in QuadrantLevels, d \in QuadrantLevels :
              InitCall(SURF70, NoArray, <<a, b, c, d>>, 0, 0)

NextFormula ==
    \/ Call_surf68
    \/ Call_surf22
    \/ Call_surf70

FormulaSpec == InitFormula /\ [][NextFormula]_vars

Next ==
    \/ Enter
    \/ WA_Cell
    \/ WA_Return
    \/ Interp_Cell
    \/ Quadrant_Call
    \/ Quadrant_Cell
    \/ Quadrant_Return
    \/ EFFR_Return

Spec == Init /\ [][Next]_vars

ShapeSpec == InitShape /\ [][Next]_vars

StripeSpec == InitStripe /\ [][Next]_vars

\* a call of _compute_quadrant_area(phi1, phi2, phi3, phi4, 3, 3) on its own:
\* four arrays whose one interior cell holds the quadrant (P1, P2, P3, P4)
QuadrantArray(P) == [c \in Cells(3, 3) |-> IF c = <<1, 1>> THEN P ELSE Junk]

InitQuadrant ==
    \E P1 \in QuadrantLevels, P2 \in QuadrantLevels,
       P3 \in QuadrantLevels, P4 \in QuadrantLevels :
        InitCall(QUADRANT, NoArray,
                 <<QuadrantArray(P1), QuadrantArray(P2),
                   QuadrantArray(P3), QuadrantArray(P4)>>, 3, 3)

NextQuadrant ==
    \/ Enter
    \/ Quadrant_Cell
    \/ Quadrant_Return

QuadrantSpec == InitQuadrant /\ [][NextQuadrant]_vars

\* ------------------------------------------------------------------ claims
InUnit(x) == IsFinite(x) /\ RLe(Zero, x) /\ RLe(x, One)

Burning(x) == RGt(x, Half)

Unburnt(x) == RLt(x, Half)

\* a cell pass of _compute_quadrant_area has happened
Passed == last.how # "nil"

\* C1: every quadrant that is not short-circuited and has no value equal to
\* 0.5 gets a case identifier that is a key of the table, so the
\* invalid-identifier error cannot happen for it.
C1_IdentifierInTable ==
    (last.how \in {"case", "invalid"} /\ \A k \in 1 .. 4 : last.P[k] # Half)
        => last.C \in QUADRANT_CASE_KEYS

\* C2: in every grid SGBA_EFFR returns, every interior cell lies in [0, 1],
\* and so does every quadrant area a short cut or a table formula produced,
\* whatever the range of phi.
C2_EFFR_InUnit ==
    /\ (pc = "returned" /\ fn \in {EFFR, LEGACY_EFFR})
           => \A c \in Interior(ny, nx) : InUnit(ret[c])
    /\ (fn \in {EFFR, LEGACY_EFFR} /\ last.how \in {"full", "none", "case"})
           => InUnit(last.area)

C2_Witness ==
    /\ pc = "returned"
    /\ fn = EFFR
    /\ \E c \in DOMAIN phi : RGt(phi[c], One)
    /\ \E c \in Interior(ny, nx) : RLt(Zero, ret[c]) /\ RLt(ret[c], One)

\* C3: when every value of phi lies in [0, 1], every interior cell of the grid
\* SGBA_WA returns lies in [0, 1].
C3_WA_InUnit ==
    (pc = "returned" /\ fn = WA /\ \A c \in DOMAIN phi : InUnit(phi[c]))
        => \A c \in Interior(ny, nx) : InUnit(ret[c])

C3_Witness ==
    /\ pc = "returned"
    /\ fn = WA
    /\ \A c \in DOMAIN phi : InUnit(phi[c])
    /\ \E c \in DOMAIN phi, d \in DOMAIN phi : phi[c] # phi[d]
    /\ \E c \in Interior(ny, nx) : RLt(Zero, ret[c]) /\ RLt(ret[c], One)

\* C4: every interior cell of the grid SGBA_WA returns satisfies
\* 64 S[j,i] = 36 phi[j,i] + 6 (sum of the 4 edge neighbours)
\*             + (sum of the 4 diagonal neighbours);
\* on the 3 x 3 grid with centre 0.6, edges 0.2 and corners 0 the centre of S
\* is 0.4125 = 33/80.
Sum4(a, b, c, d) == RAdd(RAdd(a, b), RAdd(c, d))

TrianglesFixture ==
    Fixture(<<<<Zero, Rat(1, 5), Zero>>,
              <<Rat(1, 5), Rat(3, 5), Rat(1, 5)>>,
              <<Zero, Rat(1, 5), Zero>>>>)

C4_WA_Formula ==
    (pc = "returned" /\ fn = WA)
        => /\ \A c \in Interior(ny, nx) :
                LET r == c[1]
                    k == c[2]
                IN  RMul(Rat(64, 1), ret[c]) =
                        RAdd(RMul(Rat(36, 1), phi[r, k]),
                             RAdd(RMul(Rat(6, 1),
                                       Sum4(phi[r - 1, k], phi[r + 1, k],
                                            phi[r, k - 1], phi[r, k + 1])),
                                  Sum4(phi[r - 1, k - 1], phi[r - 1, k + 1],
                                       phi[r + 1, k - 1], phi[r + 1, k + 1])))
           /\ phi = TrianglesFixture => ret[1, 1] = Rat(33, 80)

C4_Witness ==
    /\ pc = "returned"
    /\ fn = WA
    /\ phi = TrianglesFixture
    /\ ret[1, 1] = Rat(4125, 10000)

\* C5: when phi is constant with value v, every interior cell of the grid
\* SGBA_WA returns holds v.
Constant(a) == \A c \in DOMAIN a, d \in DOMAIN a : a[c] = a[d]

C5_WA_FixedPoint ==
    (pc = "returned" /\ fn = WA /\ Constant(phi))
        => \A c \in Interior(ny, nx) : ret[c] = phi[c]

C5_Witness ==
    /\ pc = "returned"
    /\ fn = WA
    /\ Constant(phi)
    /\ Cardinality(Interior(ny, nx)) > 1
    /\ \A c \in Interior(ny, nx) : ret[c] = Rat(4, 5)

\* C6: a quadrant whose 4 values are all > 0.5 gets area 1 and one whose 4
\* values are all < 0.5 gets area 0, and in both cases no case identifier is
\* computed and no formula is evaluated.
ShortCut(area) ==
    /\ last.area = area
    /\ last.C = NoC
    /\ last.D = <<>>
    /\ last.dn = {}
    /\ pc # "raised"
    /\ (pc = "quad" /\ q = last.q) => quadrant_area[last.j, last.i] = area
    /\ (pc = "returned" /\ fn = QUADRANT) => ret[last.j, last.i] = area

C6_Saturation ==
    /\ (Passed /\ \A k \in 1 .. 4 : Burning(last.P[k])) => ShortCut(One)
    /\ (Passed /\ \A k \in 1 .. 4 : Unburnt(last.P[k])) => ShortCut(Zero)

C6_Witness ==
    /\ pc = "returned"
    /\ \A k \in 1 .. 4 : Unburnt(last.P[k])
    /\ \E k \in 1 .. 4, m \in 1 .. 4 : last.P[k] # last.P[m]
    /\ ret[1, 1] = Zero

\* C7: whenever the identifier is no key of the table, SGBA_EFFR raises and
\* returns no grid; it never writes a quadrant area for that quadrant and
\* goes on.
C7_InvalidRaises ==
    (fn \in {EFFR, LEGACY_EFFR} /\ (last.how = "invalid" \/ printed # <<>>))
        => (pc = "raised" /\ ret = NoArray)

\* C8: the error SGBA_EFFR raises for an identifier that is no key of the
\* table is a condition of its own that names the cell (j, i) and the
\* quadrant that failed.
C8_ErrorNamesCell ==
    (fn = EFFR /\ pc = "raised" /\ last.how = "invalid")
        => /\ err.type = "InvalidCase"
           /\ err.key = <<last.j, last.i, last.q>>

\* C9: when the declared dimensions differ from the shape of phi, SGBA_WA
\* and SGBA_EFFR raise before any cell is computed: they neither return a
\* grid nor raise after the first pass of a loop.
Mismatch == ny # Rows(phi) \/ nx # Columns(phi)

C9_ShapeRejected ==
    (fn \in {WA, EFFR} /\ Mismatch)
        => /\ pc # "returned"
           /\ pc = "raised" => <<j, i>> = <<0, 0>>

\* C10: whenever the identifier is a key of the table, each difference in a
\* denominator of the selected formula is taken between two values strictly
\* on opposite sides of 0.5, along an edge whose crossing value is not 0, and
\* the area is neither infinite nor nan.
Edges == <<<<1, 2>>, <<2, 3>>, <<4, 3>>, <<1, 4>>>>

C10_NoDivisionByZero ==
    last.how = "case"
        => /\ IsFinite(last.area)
           /\ last.dn # {}
           /\ \A d \in last.dn :
                /\ (Burning(d[1]) /\ Unburnt(d[2])) \/ (Unburnt(d[1]) /\ Burning(d[2]))
                /\ \E k \in 1 .. 4 :
                      /\ {last.P[Edges[k][1]], last.P[Edges[k][2]]} = {d[1], d[2]}
                      /\ last.D[k] # 0

C10_Witness ==
    /\ last.how = "case"
    /\ \E k \in 1 .. 4 : last.P[k] = Half
    /\ pc = "returned"
    /\ IsFinite(ret[1, 1])

\* C11: every quadrant that is not short-circuited and has a value equal to
\* 0.5 gets an identifier that is no key of the table and is reported as an
\* error, no area being produced.
OnThreshold(P) == \E k \in 1 .. 4 : P[k] = Half

C11_ThresholdIsError ==
    (fn = QUADRANT /\ last.how \in {"case", "invalid"} /\ OnThreshold(last.P))
        => /\ last.C \notin QUADRANT_CASE_KEYS
           /\ pc = "raised"

\* C11 as amended: the same, except for the quadrants in which exactly one
\* value equals 0.5, its two edge-adjacent values lie strictly on one side of
\* 0.5 and the opposite value strictly on the other side.
Clockwise(k) == (k % 4) + 1

Opposite(k) == Clockwise(Clockwise(k))

Anticlockwise(k) == Clockwise(Opposite(k))

OneOnThresholdBetweenEqualSides(P) ==
    \E k \in 1 .. 4 :
        /\ P[k] = Half
        /\ \A m \in (1 .. 4) \ {k} : P[m] # Half
        /\ \/ /\ Burning(P[Clockwise(k)])
              /\ Burning(P[Anticlockwise(k)])
              /\ Unburnt(P[Opposite(k)])
           \/ /\ Unburnt(P[Clockwise(k)])
              /\ Unburnt(P[Anticlockwise(k)])
              /\ Burning(P[Opposite(k)])

C11_ThresholdIsErrorUnlessBetweenEqualSides ==
    (/\ fn = QUADRANT
     /\ last.how \in {"case", "invalid"}
     /\ OnThreshold(last.P)
     /\ ~OneOnThresholdBetweenEqualSides(last.P))
        => /\ last.how = "invalid"
           /\ last.C \notin QUADRANT_CASE_KEYS
           /\ pc = "raised"
           /\ err = [type |-> "KeyError", key |-> <<last.C>>]
           /\ ret = NoArray

C11_Witness ==
    /\ fn = QUADRANT
    /\ pc = "raised"
    /\ Cardinality({k \in 1 .. 4 : last.P[k] = Half}) = 1
    /\ \E k \in 1 .. 4 : Burning(last.P[k])
    /\ \E k \in 1 .. 4 : Unburnt(last.P[k])

\* C12: for every quadrant with one corner on one side of 0.5 and the three
\* others on the other side, none equal to 0.5, the area of (P1,P2,P3,P4)
\* plus the area of (1-P1,1-P2,1-P3,1-P4) is 1, wherever the isolated corner.
OneIsolated(P) ==
    /\ \A k \in 1 .. 4 : P[k] # Half
    /\ \/ Cardinality({k \in 1 .. 4 : Burning(P[k])}) = 1
       \/ Cardinality({k \in 1 .. 4 : Unburnt(P[k])}) = 1

RoleSwap(P) == [k \in 1 .. 4 |-> RSub(One, P[k])]

C12_RoleSwapSumsToOne ==
    (fn = QUADRANT /\ Passed /\ OneIsolated(last.P))
        => LET R == RoleSwap(last.P)
               swapped == QuadrantCell(R[1], R[2], R[3], R[4])
           IN  /\ last.how = "case"
               /\ swapped.how = "case"
               /\ RAdd(last.area, swapped.area) = One

\* C13: each of the 13 keys of the table is the identifier of at least one
\* quadrant, and for every quadrant that gets it the table's formula returns
\* a value in [0, 1].
ProducedIdentifiers ==
    {QuadrantCell(P[1], P[2], P[3], P[4]).C : P \in [1 .. 4 -> QuadrantLevels]}

C13_ClassifierCoverage ==
    /\ QUADRANT_CASE_KEYS \subseteq ProducedIdentifiers
    /\ (fn = QUADRANT /\ last.C \in QUADRANT_CASE_KEYS)
           => /\ last.how = "case"
              /\ InUnit(last.area)
              /\ pc = "returned" => ret[last.j, last.i] = last.area

C13_Witness ==
    /\ fn = QUADRANT
    /\ pc = "returned"
    /\ last.C = 24
    /\ RLt(Zero, ret[1, 1])
    /\ RLt(ret[1, 1], One)

\* C19: for every quadrant that is not short-circuited, each crossing value
\* D1 (P1,P2), D2 (P2,P3), D3 (P4,P3), D4 (P1,P4) is -1, 0 or 1, and is not 0
\* exactly when its two values lie strictly on opposite sides of 0.5; the
\* identifier is (1+D1) + 3(1+D2) + 9(1+D3) + 27(1+D4) and lies in 0..80.
Crosses(x, y) == (Burning(x) /\ Unburnt(y)) \/ (Unburnt(x) /\ Burning(y))

C19_CrossingValues ==
    last.how \in {"case", "invalid"}
        => /\ \A k \in 1 .. 4 :
                /\ last.D[k] \in {-1, 0, 1}
                /\ last.D[k] # 0 <=> Crosses(last.P[Edges[k][1]], last.P[Edges[k][2]])
                /\ last.D[k] = 1 <=> (Burning(last.P[Edges[k][1]])
                                        /\ Unburnt(last.P[Edges[k][2]]))
           /\ last.C = (1 + last.D[1]) + 3 * (1 + last.D[2])
                         + 9 * (1 + last.D[3]) + 27 * (1 + last.D[4])
           /\ last.C \in 0 .. 80

C19_Witness ==
    /\ last.how = "invalid"
    /\ last.P[1] = Half
    /\ Burning(last.P[2])
    /\ Unburnt(last.P[4])
    /\ last.D[1] = 0
    /\ last.D[4] = 0
    /\ last.D[2] = 1

\* C15: in the grid SGBA_WA or SGBA_EFFR returns, every cell of the boundary
\* ring holds a value the function put there, never what np.empty left.
Ring(rows, columns) ==
    ((0 .. rows - 1) \X (0 .. columns - 1)) \ Interior(rows, columns)

C15_RingFilled ==
    (pc = "returned" /\ fn \in {WA, EFFR})
        => \A c \in Ring(ny, nx) : ret[c] # Junk

\* C20: for an interior cell whose value c is > 0.5 while its 8 interpolated
\* values are all < 0.5, the four quadrants get the identifiers 28, 22, 68, 42
\* (one burning corner, the cell centre), each area is
\* (c - 0.5)^2 / (2 (c - m_a)(c - m_b)) with m_a, m_b the quadrant's two edge
\* midpoints, and S[j, i] is the mean of the four; the triangles grid of the
\* tests gives 0.125.
FrontAroundCentre(r, c) ==
    /\ Burning(phi[r, c])
    /\ \A n \in AuxNames : Unburnt(Interpolate(r, c)[n])

ApexTriangle(c, ma, mb) ==
    RDiv(np_power2(RSub(c, Half)), RMul(Two, RMul(RSub(c, ma), RSub(c, mb))))

Midpoints(r, c) ==
    LET m == Interpolate(r, c)
    IN  <<<<m.south, m.west>>, <<m.south, m.east>>,
          <<m.east, m.north>>, <<m.west, m.north>>>>

ApexArea(r, c, k) ==
    ApexTriangle(phi[r, c], Midpoints(r, c)[k][1], Midpoints(r, c)[k][2])

ApexIdentifiers == <<28, 22, 68, 42>>

C20_CentreApex ==
    /\ (/\ fn \in {EFFR, LEGACY_EFFR}
        /\ Passed
        /\ FrontAroundCentre(last.j, last.i))
           => /\ last.how = "case"
              /\ last.C = ApexIdentifiers[last.q]
              /\ last.area = ApexArea(last.j, last.i, last.q)
    /\ (pc = "returned" /\ fn \in {EFFR, LEGACY_EFFR})
           => /\ \A c \in Interior(ny, nx) :
                    FrontAroundCentre(c[1], c[2])
                        => ret[c] = Mean4(ApexArea(c[1], c[2], 1),
                                          ApexArea(c[1], c[2], 2),
                                          ApexArea(c[1], c[2], 3),
                                          ApexArea(c[1], c[2], 4))
              /\ phi = TrianglesFixture => ret[1, 1] = Rat(1, 8)

C20_Witness ==
    /\ pc = "returned"
    /\ fn = EFFR
    /\ FrontAroundCentre(1, 1)
    /\ phi[0, 0] # phi[2, 2]
    /\ last.C = 42
    /\ RLt(Zero, ret[1, 1])

\* C14: a call of SGBA_WA or SGBA_EFFR writes every interior cell of the array
\* it returns exactly once and no cell of the boundary ring, and so does every
\* call of _compute_quadrant_area with its quadrant_area.
OnceInside(w) ==
    \A c \in DOMAIN w : w[c] = IF c \in Interior(ny, nx) THEN 1 ELSE 0

C14_InteriorWrittenOnce ==
    /\ (pc = "returned" /\ fn \in {WA, EFFR}) => OnceInside(writes.S)
    /\ (pc = "quad" /\ LoopOver) => OnceInside(writes.quadrant_area)

\* C16: no step of a call of SGBA_WA or SGBA_EFFR changes a cell of phi,
\* whether the call returns or raises, and the array the call returns is the
\* S it made itself.
C16_PhiReadOnly ==
    [][/\ phi' = phi
       /\ (fn \in {WA, EFFR, LEGACY_EFFR} /\ pc' = "returned" /\ prev' = prev)
              => (ret' = S' /\ ret' # phi)]_vars

C16_Witness ==
    /\ fn = EFFR
    /\ pc = "raised"
    /\ err.type = "KeyError"
    /\ last.q = 3
    /\ last.P[1] = phi[1, 1]

\* C17: when the bodies of the loops of SGBA_WA or SGBA_EFFR are run for the
\* interior cells in any order, every interior cell of the returned S holds
\* what that cell's computation gives from phi alone, which is what the
\* row-major loops give, and each pass writes only its own cell, once.
CellQuadrants(r, c) ==
    LET m == Interpolate(r, c)
    IN  <<<<m.south_west, m.south, phi[r, c], m.west>>,
          <<m.south, m.south_east, m.east, phi[r, c]>>,
          <<phi[r, c], m.east, m.north_east, m.north>>,
          <<m.west, phi[r, c], m.north, m.north_west>>>>

CellArea(r, c, k) ==
    LET P == CellQuadrants(r, c)[k]
    IN  Dispatch(fn, QuadrantCell(P[1], P[2], P[3], P[4])).area

CellValue(r, c) ==
    IF fn = WA THEN WA_Stencil(r, c)
    ELSE Mean4(CellArea(r, c, 1), CellArea(r, c, 2),
               CellArea(r, c, 3), CellArea(r, c, 4))

C17_AnyOrder ==
    /\ pc = "returned"
           => /\ \A c \in Interior(ny, nx) : ret[c] = CellValue(c[1], c[2])
              /\ fn = WA => OnceInside(writes.S)
    /\ (pc = "quad" /\ LoopOver) => OnceInside(writes.quadrant_area)

C17_Witness ==
    /\ pc = "returned"
    /\ fn = EFFR
    /\ last.q = 4
    /\ <<last.j, last.i>> = <<1, 1>>
    /\ ret[1, 1] # ret[1, 2]
    /\ ret[1, 2] # ret[1, 3]

\* C18: a second call of SGBA_WA or SGBA_EFFR with the same phi, ny, nx ends
\* as the first did: both raise the same error, or both return and the two
\* grids are equal in every interior cell, whatever np.empty leaves in the
\* new arrays.
C18_SameOutcome ==
    (prev # NoPrev /\ pc \in {"returned", "raised"})
        => /\ pc = prev.pc
           /\ err = prev.err
           /\ pc = "returned"
                  => \A c \in Interior(ny, nx) : ret[c] = prev.ret[c]

C18_Witness ==
    /\ prev.pc = "returned"
    /\ pc = "returned"
    /\ fn = EFFR
    /\ fill = Zero
    /\ ret # prev.ret
    /\ \E c \in Interior(ny, nx), d \in Interior(ny, nx) : ret[c] # ret[d]

\* C21: on a 3 x 3 array that is constant along one axis, with c on the
\* centre line and a on both side lines, c > 0.5 > (a + c) / 2, SGBA_EFFR
\* returns 2 (c - 0.5) / (c - a) at the centre, along rows as along columns,
\* every quadrant being a trapezoid case; for c = 0.6, a = 0.2 SGBA_EFFR and
\* SGBA_WA both return 0.5.
ColumnStripe(a, c) == [d \in Cells(3, 3) |-> IF d[2] = 1 THEN c ELSE a]

RowStripe(a, c) == [d \in Cells(3, 3) |-> IF d[1] = 1 THEN c ELSE a]

CentredStripe ==
    /\ ny = 3
    /\ nx = 3
    /\ phi \in {ColumnStripe(phi[0, 0], phi[1, 1]), RowStripe(phi[0, 0], phi[1, 1])}
    /\ Burning(phi[1, 1])
    /\ Unburnt(Mean2(phi[0, 0], phi[1, 1]))

TrapezoidIdentifiers == {70, 10, 50, 30}

C21_StripeArea ==
    /\ (fn \in {EFFR, LEGACY_EFFR} /\ CentredStripe /\ Passed)
           => /\ last.how = "case"
              /\ last.C \in TrapezoidIdentifiers
    /\ (fn \in {EFFR, LEGACY_EFFR} /\ CentredStripe /\ pc \notin {"enter", "interp", "quad", "combine"})
           => /\ pc = "returned"
              /\ ret[1, 1] = RDiv(RMul(Two, RSub(phi[1, 1], Half)),
                                  RSub(phi[1, 1], phi[0, 0]))
    /\ (/\ pc = "returned"
        /\ phi \in {ColumnStripe(Rat(1, 5), Rat(3, 5)), RowStripe(Rat(1, 5), Rat(3, 5))})
           => ret[1, 1] = Half

C21_Witness ==
    /\ pc = "returned"
    /\ fn = EFFR
    /\ phi = RowStripe(Zero, Rat(4, 5))
    /\ ret[1, 1] = Rat(3, 4)

\* C22: when an interior cell and its 8 neighbours are all > 0.5 SGBA_EFFR
\* sets S[j, i] = 1, and when they are all < 0.5 it sets S[j, i] = 0, every
\* quadrant of the cell taking a short cut; SGBA_WA and SGBA_EFFR both return
\* 0 on the all-zero array and 1 on the all-one array.
Block(r, c) == {<<r + dr, c + dc>> : dr \in {-1, 0, 1}, dc \in {-1, 0, 1}}

AllBurning(r, c) == \A d \in Block(r, c) : Burning(phi[d])

AllUnburnt(r, c) == \A d \in Block(r, c) : Unburnt(phi[d])

C22_SaturatedCell ==
    /\ (fn \in {EFFR, LEGACY_EFFR} /\ Passed)
           => /\ AllBurning(last.j, last.i) => last.how = "full"
              /\ AllUnburnt(last.j, last.i) => last.how = "none"
    /\ (fn \in {EFFR, LEGACY_EFFR} /\ pc = "returned")
           => \A c \in Interior(ny, nx) :
                 /\ AllBurning(c[1], c[2]) => ret[c] = One
                 /\ AllUnburnt(c[1], c[2]) => ret[c] = Zero
    /\ (pc = "returned" /\ phi = [c \in Cells(3, 3) |-> Zero]) => ret[1, 1] = Zero
    /\ (pc = "returned" /\ phi = [c \in Cells(3, 3) |-> One]) => ret[1, 1] = One
    /\ ((\A c \in DOMAIN phi : Burning(phi[c])) \/ (\A d \in DOMAIN phi : Unburnt(phi[d])))
           => pc # "raised"

C22_Witness ==
    /\ pc = "returned"
    /\ fn = EFFR
    /\ AllBurning(1, 1)
    /\ ~Constant(phi)
    /\ ret[1, 1] = One

\* C27: a quadrant with a value equal to 0.5 and no two edge-adjacent values
\* strictly on opposite sides of 0.5 gets D1 = D2 = D3 = D4 = 0 and the
\* identifier 40, no key of the table; so SGBA_EFFR raises on the constant
\* array 0.5 and on every cell that has such a quadrant (an edge midpoint
\* 0.5 next to values on one side only), while SGBA_WA returns.
Uncrossed(P) == \A k \in 1 .. 4 : ~Crosses(P[Edges[k][1]], P[Edges[k][2]])

ThresholdUncrossed(P) == OnThreshold(P) /\ Uncrossed(P)

C27_UncrossedThresholdRaises ==
    /\ (fn = EFFR /\ Passed /\ ThresholdUncrossed(last.P))
           => /\ last.D = <<0, 0, 0, 0>>
              /\ last.C = 40
              /\ 40 \notin QUADRANT_CASE_KEYS
              /\ pc = "raised"
              /\ err = [type |-> "KeyError", key |-> <<40>>]
    /\ (fn = EFFR /\ pc = "returned")
           => \A c \in Interior(ny, nx), k \in 1 .. 4 :
                 ~ThresholdUncrossed(CellQuadrants(c[1], c[2])[k])
    /\ (fn = EFFR /\ phi = [c \in Cells(3, 3) |-> Half]) => pc # "returned"
    /\ fn = WA => pc # "raised"

C27_Witness ==
    /\ fn = EFFR
    /\ pc = "raised"
    /\ phi[1, 1] = One
    /\ phi[1, 2] = Zero
    /\ phi[1, 0] = One
    /\ last.q = 2
    /\ last.P[3] = Half
    /\ last.C = 40

\* C23: when P1 and P3 are > 0.5 and P2 and P4 are < 0.5 the identifier is 56
\* and the area is the triangle at P1 plus the triangle at P3; when P2 and P4
\* are > 0.5 and P1 and P3 are < 0.5 the identifier is 24 and the area is the
\* triangle at P2 plus the triangle at P4; the area lies in [0, 1].
Triangle(A, B, D) ==
    RDiv(RMul(RSub(Half, A), RSub(Half, A)),
         RMul(Two, RMul(RSub(B, A), RSub(D, A))))

TriangleAt(P, k) == Triangle(P[k], P[Clockwise(k)], P[Anticlockwise(k)])

Saddle(P, k) ==
    /\ Burning(P[k])
    /\ Burning(P[Opposite(k)])
    /\ Unburnt(P[Clockwise(k)])
    /\ Unburnt(P[Anticlockwise(k)])

C23_Saddle ==
    \A k \in {1, 2} :
        (Passed /\ Saddle(last.P, k))
            => /\ last.how = "case"
               /\ last.C = IF k = 1 THEN 56 ELSE 24
               /\ last.area = RAdd(TriangleAt(last.P, k),
                                   TriangleAt(last.P, Opposite(k)))
               /\ InUnit(last.area)
               /\ pc # "raised"

C23_Witness ==
    /\ pc = "returned"
    /\ Saddle(last.P, 2)
    /\ last.P[2] # last.P[4]
    /\ last.P[1] # last.P[3]
    /\ ret[1, 1] = RAdd(TriangleAt(last.P, 2), TriangleAt(last.P, 4))

\* C25: for every quadrant with no value equal to 0.5 whose identifier is a
\* key of the table: with exactly one corner > 0.5 the area is the triangle
\* (0.5 - A)^2 / (2 (B - A)(D - A)), A that corner and B, D its two adjacent
\* corners; with exactly one corner < 0.5 it is 1 minus the triangle at that
\* corner; with two adjacent corners > 0.5 and the two others < 0.5 it is the
\* mean of the two crossing fractions from the burning corners along the two
\* crossed edges.
BurningCorners(P) == {k \in 1 .. 4 : Burning(P[k])}

UnburntCorners(P) == {k \in 1 .. 4 : Unburnt(P[k])}

CrossingFraction(X, Y) == RDiv(RSub(Half, X), RSub(Y, X))

C25_FormulaMatchesPattern ==
    (last.how = "case" /\ ~OnThreshold(last.P))
        => LET P == last.P
           IN  /\ \A k \in 1 .. 4 :
                     /\ BurningCorners(P) = {k} => last.area = TriangleAt(P, k)
                     /\ UnburntCorners(P) = {k}
                            => last.area = RSub(One, TriangleAt(P, k))
                     /\ BurningCorners(P) = {k, Clockwise(k)}
                            => last.area =
                                   Mean2(CrossingFraction(P[k], P[Anticlockwise(k)]),
                                         CrossingFraction(P[Clockwise(k)], P[Opposite(k)]))
               /\ Cardinality(BurningCorners(P)) \in 1 .. 3

C25_Witness ==
    /\ pc = "returned"
    /\ fn = QUADRANT
    /\ BurningCorners(last.P) = {4, 1}
    /\ last.P[4] # last.P[1]
    /\ last.P[2] # last.P[3]
    /\ last.C = 50

\* C24: for each interior cell SGBA_EFFR classifies exactly the quadrants
\* (SW corner, S midpoint, centre, W midpoint), (S midpoint, SE corner,
\* E midpoint, centre), (centre, E midpoint, NE corner, N midpoint) and
\* (W midpoint, centre, N midpoint, NW corner), a midpoint being the mean of
\* the cell and the neighbour across the edge and a corner value the mean of
\* the 4 cells that share the corner; S[j, i] is the mean of the 4 areas.
EdgeMidpoint(r, c, dr, dc) ==
    RDiv(RAdd(phi[r, c], phi[r + dr, c + dc]), Two)

CornerValue(r, c, dr, dc) ==
    RDiv(RAdd(RAdd(phi[r, c], phi[r + dr, c + dc]),
              RAdd(phi[r + dr, c], phi[r, c + dc])), <<4, 1>>)

SubCells(r, c) ==
    <<<<CornerValue(r, c, -1, -1), EdgeMidpoint(r, c, -1, 0),
        phi[r, c], EdgeMidpoint(r, c, 0, -1)>>,
      <<EdgeMidpoint(r, c, -1, 0), CornerValue(r, c, -1, 1),
        EdgeMidpoint(r, c, 0, 1), phi[r, c]>>,
      <<phi[r, c], EdgeMidpoint(r, c, 0, 1),
        CornerValue(r, c, 1, 1), EdgeMidpoint(r, c, 1, 0)>>,
      <<EdgeMidpoint(r, c, 0, -1), phi[r, c],
        EdgeMidpoint(r, c, 1, 0), CornerValue(r, c, 1, -1)>>>>

C24_FourQuadrants ==
    /\ (fn \in {EFFR, LEGACY_EFFR} /\ Passed)
           => /\ last.q \in 1 .. 4
              /\ last.P = SubCells(last.j, last.i)[last.q]
    /\ (fn \in {EFFR, LEGACY_EFFR} /\ pc = "quad") => Len(areas) = q - 1
    /\ (fn \in {EFFR, LEGACY_EFFR} /\ pc = "returned")
           => /\ Len(areas) = 4
              /\ \A c \in Interior(ny, nx) :
                    /\ \A k \in 1 .. 4 :
                          LET P == SubCells(c[1], c[2])[k]
                          IN  areas[k][c] =
                                  Dispatch(fn, QuadrantCell(P[1], P[2], P[3], P[4])).area
                    /\ ret[c] = RDiv(Sum4(areas[1][c], areas[2][c],
                                          areas[3][c], areas[4][c]), <<4, 1>>)

C24_Witness ==
    /\ fn = EFFR
    /\ pc = "returned"
    /\ phi[0, 0] # phi[0, 2]
    /\ phi[0, 0] # phi[2, 0]
    /\ phi[2, 2] # phi[0, 2]
    /\ areas[1][1, 1] # areas[2][1, 1]
    /\ areas[3][1, 1] # areas[4][1, 1]
    /\ areas[1][1, 1] # areas[4][1, 1]

\* C28: on every phi on which subgrid_burning_area.py's SGBA_EFFR returns,
\* blaze.py's SGBA_EFFR returns the same interior values, and the two SGBA_WA
\* agree; the two differ only on an identifier that is no key of the table,
\* where blaze.py writes the area 0 and goes on and subgrid_burning_area.py
\* raises.
TableArea(P) == QuadrantCell(P[1], P[2], P[3], P[4])

ChainArea(P) == Dispatch(LEGACY_EFFR, TableArea(P)).area

AllInTable ==
    \A c \in Interior(ny, nx), k \in 1 .. 4 :
        TableArea(SubCells(c[1], c[2])[k]).how # "invalid"

C28_SameOnValidInput ==
    /\ (fn = EFFR /\ pc = "returned")
           => /\ AllInTable
              /\ \A c \in Interior(ny, nx) :
                    ret[c] = Mean4(ChainArea(SubCells(c[1], c[2])[1]),
                                   ChainArea(SubCells(c[1], c[2])[2]),
                                   ChainArea(SubCells(c[1], c[2])[3]),
                                   ChainArea(SubCells(c[1], c[2])[4]))
    /\ (fn = LEGACY_EFFR /\ pc = "returned" /\ AllInTable)
           => \A c \in Interior(ny, nx) :
                 ret[c] = Mean4(TableArea(SubCells(c[1], c[2])[1]).area,
                                TableArea(SubCells(c[1], c[2])[2]).area,
                                TableArea(SubCells(c[1], c[2])[3]).area,
                                TableArea(SubCells(c[1], c[2])[4]).area)
    /\ (fn \in {EFFR, LEGACY_EFFR} /\ Passed /\ last.how # "invalid")
           => ChainArea(last.P) = last.area
    /\ (fn \in {EFFR, LEGACY_EFFR} /\ Passed /\ last.how = "invalid")
           => /\ ChainArea(last.P) = Zero
              /\ fn = EFFR => pc = "raised"
              /\ fn = LEGACY_EFFR => pc # "raised"
    /\ (fn = LEGACY_EFFR /\ pc \notin {"enter", "interp", "quad", "combine"})
           => pc = "returned"
    /\ (fn = WA /\ pc = "returned")
           => \A c \in Interior(ny, nx) : ret[c] = blaze_py_WA_Stencil(c[1], c[2])

C28_Witness ==
    /\ fn = LEGACY_EFFR
    /\ pc = "returned"
    /\ AllInTable
    /\ last.how = "case"
    /\ ~Constant(phi)
    /\ RLt(Zero, ret[1, 1])
    /\ RLt(ret[1, 1], One)

\* C26: for every square phi, SGBA_EFFR(phi.T) raises if and only if
\* SGBA_EFFR(phi) raises, and otherwise SGBA_EFFR(phi.T)[i, j] equals
\* SGBA_EFFR(phi)[j, i] in every interior cell.
C26_TransposeCommutes ==
    (prev # NoPrev /\ pc \in {"returned", "raised"})
        => /\ pc = prev.pc
           /\ pc = "returned"
                  => \A c \in Interior(ny, nx) : ret[c] = prev.ret[c[2], c[1]]

\* C29: _surf22(a, b, c) returns what _surf68(c, a, b) returns whenever c
\* differs from a and from b; _surf68(p, 0.5, 0.5) and _surf22(0.5, 0.5, p)
\* return 0.5 for every p other than 0.5.
C29_SameTriangle ==
    /\ (fn = SURF22 /\ pc = "returned" /\ ret # NoArray
            /\ args[3] # args[1] /\ args[3] # args[2])
           => ret = _surf68(args[3], args[1], args[2]).v
    /\ (fn = SURF68 /\ pc = "returned" /\ ret # NoArray
            /\ args[1] # args[2] /\ args[1] # args[3])
           => ret = _surf22(args[2], args[3], args[1]).v
    /\ (fn = SURF68 /\ pc = "returned"
            /\ args[2] = Half /\ args[3] = Half /\ args[1] # Half)
           => ret = Half
    /\ (fn = SURF22 /\ pc = "returned"
            /\ args[1] = Half /\ args[2] = Half /\ args[3] # Half)
           => ret = Half

C29_Witness ==
    /\ fn = SURF22
    /\ pc = "returned"
    /\ args = <<Rat(1, 5), Rat(2, 5), Rat(7, 5)>>
    /\ ret = Rat(27, 80)

\* C30: _surf70(a, a, b, b) returns (0.5 - a) / (b - a) for every a other
\* than b; the result is 0.5 when a + b = 1 and lies in [0, 1] when a and b
\* lie on opposite sides of 0.5.
C30_CommonCrossing ==
    (fn = SURF70 /\ pc \in {"returned", "raised"}
         /\ args # NoArray /\ args[1] = args[2] /\ args[3] = args[4]
         /\ args[1] # args[3])
        => LET a == args[1]
               b == args[3]
           IN  /\ pc = "returned"
               /\ ret = RDiv(RSub(Half, a), RSub(b, a))
               /\ RAdd(a, b) = One => ret = Half
               /\ (RLt(a, Half) /\ RGt(b, Half)) \/ (RGt(a, Half) /\ RLt(b, Half))
                      => (RLe(Zero, ret) /\ RLe(ret, One))

C30_Witness ==
    /\ fn = SURF70
    /\ pc = "returned"
    /\ args = <<One, One, Zero, Zero>>
    /\ ret = Half

====
